---- MODULE Spec2Model ----
(***************************************************************************)
(* Model of servo-test/mcaplog.py: the compound logger (console, foxglove  *)
(* websocket worker, mcap file), and the module-level singleton with its   *)
(* free functions.                                                         *)
(*                                                                         *)
(* One producer thread calls the free functions (setup, close, publish,    *)
(* log) and Logger.log on the Logger objects get_logger() gave it; every   *)
(* Logger constructed owns one worker thread (foxglove_main) whose steps   *)
(* interleave with the producer's.                                         *)
(* A producer call is one step, except where it can be overtaken by the    *)
(* worker in a way the code can observe: Thread.join() in close (the       *)
(* producer blocks), and the first use after a lazy setup() (the worker    *)
(* starts while the producer goes on to publish).                          *)
(*                                                                         *)
(* Specifications:                                                         *)
(*   Spec      the free functions and the workers; log calls use the       *)
(*             default severity                                            *)
(*   FairSpec  Spec with the threads scheduled fairly                      *)
(*   EnvSpec   Spec with every severity, a signal that interrupts a        *)
(*             blocked join, and the exit of the process (atexit)          *)
(*   SinkSpec  MCAPLogger objects used on their own                        *)
(*   ShortSpec the per-severity shorthands, free and as Logger methods     *)
(*   RaceSpec  two producer threads calling the free functions             *)
(*   StampSpec to_stamp on its own                                         *)
(***************************************************************************)
EXTENDS Integers, Sequences, FiniteSets, TLC

\* ---------------------------------------------------------------- bounds
MaxLoggers == 2      \* Logger objects constructed in one run
MaxCalls == 2        \* publish/log calls made in one run
LiveLoggers == 2     \* the same two budgets in the runs checked for liveness
LiveCalls == 1
EnvLoggers == 1      \* ... in the runs with signals and process exit
EnvCalls == 1
SinkLoggers == 1     \* MCAPLogger objects and calls in the runs of SinkSpec
SinkCalls == 2
ShortLoggers == 1    \* ... in the runs with the per-severity shorthands
ShortCalls == 1
RaceLoggers == 2     \* ... in the runs with two producer threads
RaceCalls == 1
NsSteps == 30        \* nanosecond counts tried on each side of a whole second

Ids == 1..MaxLoggers

\* ------------------------------------------------------------- constants
\* the literal of the source is /log between two backquotes
FOXGLOVE_LOG_TOPIC == "/log"
FOXGLOVE_LOG_MSG_TYPE == "foxglove.Log"

\* class Level, the members the producer uses
Level_DEBUG == 1
Level_INFO == 2
Level_WARNING == 3
Level_ERROR == 4
Level_FATAL == 5
Levels == {Level_INFO, Level_WARNING}
\* the level field of a record that is not a log record
NoLevel == -1

NANO == 1000000000

\* to_ns, for a whole number of seconds
to_ns(t) == t * NANO

\* a pair that cuts the nanoseconds below a microsecond
to_stamp_micro(t) == [sec |-> t \div NANO, nsec |-> ((t % NANO) \div 1000) * 1000]

\* to_stamp: (t // NANO, t % NANO)
to_stamp(t) == [sec |-> t \div NANO, nsec |-> t % NANO]

\* no pair
NoStamp == [sec |-> -1, nsec |-> -1]

\* nanosecond counts given to to_stamp: around zero, one, two seconds
StampInputs ==
    {s * NANO + r : s \in {0, 1, 2}, r \in 0..NsSteps}
       \cup {s * NANO - r : s \in {1, 2}, r \in 1..NsSteps}

\* time.time() in this_or_now; timestamps given to a sink directly
Now == 1
Stamps == {1, 2}

\* topics and payload classes the producer uses
DataTopics == {"/pose"}
Models == {"Pose", "Twist"}          \* pydantic models (subclasses of BaseModel)
PyStr == "str"                       \* a plain string: what log() enqueues
ObjTypes == Models \cup {PyStr}

\* log_path arguments of setup(): none, one that opens, one that does not
NoPath == ""
GoodPath == "log.mcap"
BadPath == "/missing/log.mcap"
Paths == {NoPath, GoodPath, BadPath}

\* an item: the tuple (topic_name, stamp, obj) with the class of obj; id names
\* the call that made it and sev is the severity that call was given, which
\* the tuple does not carry
NoItem == [id |-> 0, topic |-> "", type |-> "", stamp |-> 0, sev |-> NoLevel]
\* class Registration; a topic that is not in the dictionary
NoReg == [name |-> "", channel_id |-> 0]
\* a message given to server.send_message or Writer.add_message
NoMsg == [id |-> 0, channel_id |-> 0, log_time |-> 0, level |-> NoLevel,
          timestamp |-> NoStamp]

VARIABLES
    logger,            \* __logger: 0 is None, else the id of the Logger held
    created,           \* Logger objects constructed so far (ids 1..created)
    thread,            \* per Logger: where its foxglove thread is
    stop,              \* per Logger: the _stop Event
    input_queue,       \* per Logger: _input_queue, with the puts that
                       \*   run_coroutine_threadsafe scheduled and the loop has
                       \*   not run yet at its tail
    exception_queue,   \* per Logger: _exception_queue
    cur,               \* per Logger: the item the worker took and is processing
    net_reg,           \* per Logger: the worker's topic_to_registration
    server_channels,   \* per Logger: server.add_channel calls made
    sent,              \* per Logger: ids of the items given to server.send_message
    wire,              \* per Logger: the last message given to server.send_message
    accepted,          \* per Logger: ids of the items publish handed over (history)
    failed,            \* per Logger (history): "no", or the worker raised at
                       \*   "start" or on an "item", or publish has "surfaced" it
    closed,            \* per Logger: FoxgloveWebsocketLogger.close() has returned
    mcap,              \* per Logger: "none" | "failed" | "open" | "finished"
    mcap_reg,          \* per Logger: MCAPLogger._topic_to_registration
    writer,            \* per Logger: register_schema / register_channel calls made
    records,           \* per Logger: the messages the container holds
    pc,                \* the producer: "idle" | "join" | "construct" | "use" | "exited"
    call,              \* the producer's current or last call and what it saw
    calls,             \* publish/log calls made so far
    limits,            \* the budgets of this run
    peer               \* a second producer thread while the first one runs:
                       \*   its position and its call

vars == <<logger, created, thread, stop, input_queue, exception_queue,
          cur, net_reg, server_channels, sent, wire, accepted, failed, closed,
          mcap, mcap_reg, writer, records, pc, call, calls, limits, peer>>

netVars == <<thread, stop, input_queue, exception_queue, cur,
             net_reg, server_channels, sent, wire, accepted, failed, closed>>
callerVars == <<logger, created, mcap, mcap_reg, writer, records,
                pc, call, calls, limits, peer>>

\* ---------------------------------------------------------------- worker
\* Positions of a foxglove thread:
\*   "none"     no thread (the Logger is not constructed)
\*   "started"  Thread.start() returned, run_until_complete not yet entered
\*   "loop"     at the test of the while loop (server up, log topic registered)
\*   "wait"     in wait_for(queue.get(), timeout=0.2)
\*   "proc"     an item taken, being registered, serialised and sent
\*   "exiting"  the entrypoint left (normally, or by an exception that the
\*              wrapping has put in the exception queue); the server shuts
\*              down and the loop still runs
\*   "dead"     run_until_complete and foxglove_main returned

\* loop.is_running(): between run_until_complete starting and returning
LoopIsRunning(i) == thread[i] \in {"loop", "wait", "proc", "exiting"}

\* Thread.is_alive(): from Thread.start() until foxglove_main returns
IsAlive(i) == thread[i] \notin {"none", "dead"}

\* the server of worker i holds port 8765 (inside async with FoxgloveServer)
ServerUp(i) == thread[i] \in {"loop", "wait", "proc"}
PortBusy(i) == \E j \in Ids : j # i /\ ServerUp(j)

EmptyReg == [t \in DataTopics \cup {FOXGLOVE_LOG_TOPIC} |-> NoReg]

\* the level the worker was started with: Logger.__init__ constructs
\* FoxgloveWebsocketLogger() without a level, so its default
FoxLevel == Level_INFO

\* a registry that registers the topic anew at every resolution
Register_always(reg, n, topic, name) ==
    [reg |-> [reg EXCEPT ![topic] = [name |-> name, channel_id |-> n + 1]],
     calls |-> n + 1]

\* register / _register once the assert has passed: the cached Registration,
\* or one registration call (n made so far) and a new entry
Register(reg, n, topic, name) ==
    IF reg[topic] # NoReg
    THEN [reg |-> reg, calls |-> n]
    ELSE [reg |-> [reg EXCEPT ![topic] = [name |-> name, channel_id |-> n + 1]],
          calls |-> n + 1]

\* _foxglove_async_wrapping: except Exception as e: await exception_queue.put(e)
wrapping_except(i, e) ==
    /\ exception_queue' = [exception_queue EXCEPT ![i] = Append(@, e)]
    /\ failed' = [failed EXCEPT ![i] = IF e = "OSError" THEN "start" ELSE "item"]
    /\ thread' = [thread EXCEPT ![i] = "exiting"]

\* foxglove_main: set_event_loop, run_until_complete; the entrypoint binds the
\* fixed port (async with FoxgloveServer) and registers the log topic
foxglove_main(i) ==
    /\ thread[i] = "started"
    /\ IF PortBusy(i)
       THEN /\ wrapping_except(i, "OSError")
            /\ UNCHANGED <<net_reg, server_channels>>
       ELSE LET r == Register(net_reg[i], server_channels[i],
                              FOXGLOVE_LOG_TOPIC, FOXGLOVE_LOG_MSG_TYPE) IN
            /\ thread' = [thread EXCEPT ![i] = "loop"]
            /\ net_reg' = [net_reg EXCEPT ![i] = r.reg]
            /\ server_channels' = [server_channels EXCEPT ![i] = r.calls]
            /\ UNCHANGED <<exception_queue, failed>>
    /\ UNCHANGED <<stop, input_queue, cur, sent, wire, accepted, closed>>
    /\ UNCHANGED callerVars

\* a loop that never looks at the stop flag
StopIsSet_never(i) == FALSE

\* while not stop.is_set()
StopIsSet(i) == stop[i]

entrypoint_loop(i) ==
    /\ thread[i] = "loop"
    /\ thread' = [thread EXCEPT ![i] = IF StopIsSet(i) THEN "exiting" ELSE "wait"]
    /\ UNCHANGED <<stop, input_queue, exception_queue, cur, net_reg,
                   server_channels, sent, wire, accepted, failed, closed>>
    /\ UNCHANGED callerVars

\* a queue that hands out its newest item first
QueueGet_lifo(q) == [item |-> q[Len(q)], rest |-> SubSeq(q, 1, Len(q) - 1)]

\* queue.get(): the item taken and what is left
QueueGet(q) == [item |-> Head(q), rest |-> Tail(q)]

entrypoint_get(i) ==
    /\ thread[i] = "wait"
    /\ input_queue[i] # <<>>
    /\ cur' = [cur EXCEPT ![i] = QueueGet(input_queue[i]).item]
    /\ input_queue' = [input_queue EXCEPT ![i] = QueueGet(input_queue[i]).rest]
    /\ thread' = [thread EXCEPT ![i] = "proc"]
    /\ UNCHANGED <<stop, exception_queue, net_reg, server_channels, sent, wire,
                   accepted, failed, closed>>
    /\ UNCHANGED callerVars

\* asyncio.TimeoutError after 0.2 s without an item: the queue is empty, or
\* holds only puts the loop has not run yet
entrypoint_timeout(i) ==
    /\ thread[i] = "wait"
    /\ thread' = [thread EXCEPT ![i] = "loop"]
    /\ UNCHANGED <<stop, input_queue, exception_queue, cur, net_reg,
                   server_channels, sent, wire, accepted, failed, closed>>
    /\ UNCHANGED callerVars

\* does handling the item raise: the asserts of the log branch, of
\* register_class and of register
ItemRaises(reg, item) ==
    IF item.topic = FOXGLOVE_LOG_TOPIC
    THEN item.type # PyStr
    ELSE \/ item.type \notin Models
         \/ reg[item.topic].name \notin {NoReg.name, item.type}

\* the message of the loop body: for the log topic the dictionary built with
\* to_stamp(stamp) and int(level) of the worker's own level, else the dumped
\* model
WorkerMessage(reg, item) ==
    [id |-> item.id,
     channel_id |-> reg[item.topic].channel_id,
     log_time |-> to_ns(item.stamp),
     level |-> IF item.topic = FOXGLOVE_LOG_TOPIC THEN FoxLevel ELSE NoLevel,
     timestamp |-> IF item.topic = FOXGLOVE_LOG_TOPIC
                   THEN to_stamp(item.stamp) ELSE NoStamp]

\* the body of the loop after the item arrived: register, serialise,
\* server.send_message
entrypoint_process(i) ==
    /\ thread[i] = "proc"
    /\ IF ItemRaises(net_reg[i], cur[i])
       THEN /\ wrapping_except(i, "WorkerAssertion")
            /\ UNCHANGED <<net_reg, server_channels, sent, wire>>
       ELSE LET r == IF cur[i].topic = FOXGLOVE_LOG_TOPIC
                     THEN [reg |-> net_reg[i], calls |-> server_channels[i]]
                     ELSE Register(net_reg[i], server_channels[i],
                                   cur[i].topic, cur[i].type) IN
            /\ thread' = [thread EXCEPT ![i] = "loop"]
            /\ net_reg' = [net_reg EXCEPT ![i] = r.reg]
            /\ server_channels' = [server_channels EXCEPT ![i] = r.calls]
            /\ sent' = [sent EXCEPT ![i] = Append(@, cur[i].id)]
            /\ wire' = [wire EXCEPT ![i] = WorkerMessage(r.reg, cur[i])]
            /\ UNCHANGED <<exception_queue, failed>>
    /\ cur' = [cur EXCEPT ![i] = NoItem]
    /\ UNCHANGED <<stop, input_queue, accepted, closed>>
    /\ UNCHANGED callerVars

\* the server is shut down, run_until_complete returns, the thread ends
thread_exit(i) ==
    /\ thread[i] = "exiting"
    /\ thread' = [thread EXCEPT ![i] = "dead"]
    /\ UNCHANGED <<stop, input_queue, exception_queue, cur, net_reg,
                   server_channels, sent, wire, accepted, failed, closed>>
    /\ UNCHANGED callerVars

Worker(i) ==
    \/ foxglove_main(i)
    \/ entrypoint_loop(i)
    \/ entrypoint_get(i)
    \/ entrypoint_timeout(i)
    \/ entrypoint_process(i)
    \/ thread_exit(i)

\* ------------------------------------------------------------- file sink
\* open(log_path, "wb") raises
OpenFails(path) == path = BadPath

\* self._mcap_log is set
HasFile(i) == mcap[i] \in {"open", "finished"}

\* a file sink whose assert lets a second type through
McapRaises_noconflict(reg, item) == item.type \notin Models

\* MCAPLogger._register_class / _register: the two asserts
McapRaises(reg, item) ==
    \/ item.type \notin Models
    \/ reg[item.topic].name \notin {NoReg.name, item.type}

\* what the mcap Writer does with a call made after finish() is not in this
\* repository: it raises, or it returns
LibOutcomes(i) == IF mcap[i] = "finished" THEN BOOLEAN ELSE {TRUE}

\* Writer.add_message: the message is appended to the container; a message
\* taken after the footer was written is not part of the container
AddMessage(i, recs, m) ==
    IF mcap[i] = "finished" THEN recs ELSE Append(recs, m)

\* MCAPLogger.__init__: open the file, start the writer, register the log topic
MCAPLogger_new(i, path) ==
    IF OpenFails(path)
    THEN /\ mcap' = [mcap EXCEPT ![i] = "failed"]
         /\ UNCHANGED <<mcap_reg, writer, records>>
    ELSE LET r == Register(EmptyReg, 0, FOXGLOVE_LOG_TOPIC, FOXGLOVE_LOG_MSG_TYPE) IN
         /\ mcap' = [mcap EXCEPT ![i] = "open"]
         /\ mcap_reg' = [mcap_reg EXCEPT ![i] = r.reg]
         /\ writer' = [writer EXCEPT ![i] = [schemas |-> r.calls, channels |-> r.calls]]
         /\ UNCHANGED records

\* the file sink untouched
FileSame(i) ==
    [exc |-> "none", reg |-> mcap_reg[i], w |-> writer[i], recs |-> records[i]]

\* MCAPLogger.publish: what it raises and what it leaves in the sink
McapPublish(i, item, lib_ok) ==
    IF McapRaises(mcap_reg[i], item)
    THEN [FileSame(i) EXCEPT !.exc = "McapAssertion"]
    ELSE IF ~lib_ok
    THEN [FileSame(i) EXCEPT !.exc = "WriterError"]
    ELSE LET r == Register(mcap_reg[i], writer[i].channels, item.topic, item.type) IN
         [exc |-> "none",
          reg |-> r.reg,
          w |-> [schemas |-> writer[i].schemas + (r.calls - writer[i].channels),
                 channels |-> r.calls],
          recs |-> AddMessage(i, records[i],
                      [id |-> item.id,
                       channel_id |-> r.reg[item.topic].channel_id,
                       log_time |-> to_ns(item.stamp),
                       level |-> NoLevel,
                       timestamp |-> NoStamp])]

\* a log that registers the log topic itself, at every call
McapLog_registering(i, item, lib_ok) ==
    LET r == Register_always(mcap_reg[i], writer[i].channels,
                             FOXGLOVE_LOG_TOPIC, FOXGLOVE_LOG_MSG_TYPE) IN
    [exc |-> "none",
     reg |-> r.reg,
     w |-> [schemas |-> writer[i].schemas + 1, channels |-> r.calls],
     recs |-> AddMessage(i, records[i],
                 [id |-> item.id,
                  channel_id |-> r.reg[FOXGLOVE_LOG_TOPIC].channel_id,
                  log_time |-> to_ns(item.stamp),
                  level |-> item.sev,
                  timestamp |-> to_stamp(item.stamp)])]

\* MCAPLogger.log: the record of the log topic with to_stamp(stamp) and
\* int(level)
McapLog(i, item, lib_ok) ==
    IF ~lib_ok
    THEN [FileSame(i) EXCEPT !.exc = "WriterError"]
    ELSE [FileSame(i) EXCEPT !.recs =
            AddMessage(i, records[i],
               [id |-> item.id,
                channel_id |-> mcap_reg[i][FOXGLOVE_LOG_TOPIC].channel_id,
                log_time |-> to_ns(item.stamp),
                level |-> item.sev,
                timestamp |-> to_stamp(item.stamp)])]

\* the sink after the call
file_effect(i, f) ==
    /\ mcap_reg' = [mcap_reg EXCEPT ![i] = f.reg]
    /\ writer' = [writer EXCEPT ![i] = f.w]
    /\ records' = [records EXCEPT ![i] = f.recs]

\* -------------------------------------------------------------- producer
Call0 ==
    [op |-> "none", inst |-> 0, built |-> 0, path |-> NoPath, item |-> NoItem,
     exc |-> "none", net |-> "none", lazy |-> FALSE,
     pre_alive |-> FALSE, pre_failed |-> "no", pre_closed |-> FALSE,
     trace |-> <<>>, bad |-> FALSE, conflict |-> FALSE, swallowed |-> "none",
     arg |-> 0, ret |-> NoStamp]

\* FoxgloveWebsocketLogger.publish: what it raises ("none": nothing) and what
\* it leaves in the queues
FoxPublish(i, item) ==
    IF ~(LoopIsRunning(i) /\ IsAlive(i))
    THEN IF exception_queue[i] # <<>>
         THEN [net |-> Head(exception_queue[i]),
               excq |-> Tail(exception_queue[i]),
               queue |-> input_queue[i]]
         ELSE [net |-> "NotRunning",
               excq |-> exception_queue[i],
               queue |-> input_queue[i]]
    ELSE [net |-> "accepted",
          excq |-> exception_queue[i],
          queue |-> Append(input_queue[i], item)]

StoredExceptions == {"OSError", "WorkerAssertion"}

\* the effect of FoxgloveWebsocketLogger.publish on the state
fox_publish(i, item) ==
    LET f == FoxPublish(i, item) IN
    /\ input_queue' = [input_queue EXCEPT ![i] = f.queue]
    /\ exception_queue' = [exception_queue EXCEPT ![i] = f.excq]
    /\ accepted' = [accepted EXCEPT ![i] =
                      IF f.net = "accepted" THEN Append(@, item.id) ELSE @]
    /\ failed' = [failed EXCEPT ![i] =
                    IF f.net \in StoredExceptions THEN "surfaced" ELSE @]

\* the call record with what the call found at Logger i
Seen(c, i) ==
    [c EXCEPT !.inst = i, !.item = NoItem, !.pre_alive = IsAlive(i),
              !.pre_failed = failed[i], !.pre_closed = closed[i]]

\* what the call raises to its caller: the first exception of its steps
FirstRaised(file_exc, net) ==
    IF file_exc # "none" THEN file_exc
    ELSE IF net \in {"none", "accepted"} THEN "none" ELSE net

\* a publish that goes on to the websocket whatever the file sink did
NetAfterFile_besteffort(file_exc) == TRUE

\* Logger.publish: an exception of the file sink leaves the method, so the
\* websocket is reached only when the file sink returned
NetAfterFile(file_exc) == file_exc = "none"

\* Logger.publish: the file first, then the websocket
DoPublish(c, i, item, lib_ok) ==
    LET f == IF HasFile(i) THEN McapPublish(i, item, lib_ok) ELSE FileSame(i)
        goes == NetAfterFile(f.exc)
        net == IF goes THEN FoxPublish(i, item).net ELSE "none"
    IN
    /\ file_effect(i, f)
    /\ IF goes
       THEN fox_publish(i, item)
       ELSE UNCHANGED <<input_queue, exception_queue, accepted, failed>>
    /\ call' = [Seen(c, i) EXCEPT
                  !.trace = (IF HasFile(i) THEN <<"file">> ELSE <<>>)
                            \o (IF goes THEN <<"net">> ELSE <<>>),
                  !.net = net,
                  !.exc = FirstRaised(f.exc, net),
                  !.bad = item.type \notin Models,
                  !.conflict = /\ HasFile(i)
                               /\ item.type \in Models
                               /\ mcap_reg[i][item.topic].name
                                     \notin {NoReg.name, item.type}]

\* a log that writes to the websocket before the console
LogSteps_netfirst(i) ==
    <<"net", "console">> \o (IF HasFile(i) THEN <<"file">> ELSE <<>>)

\* Logger.log: the console, then the websocket, then the file if there is one
LogSteps(i) ==
    <<"console", "net">> \o (IF HasFile(i) THEN <<"file">> ELSE <<>>)

\* the steps of s made when step number k is the first that raises
\* (k = 0: none raises)
UpTo(s, k) == IF k = 0 THEN s ELSE SubSeq(s, 1, k)

\* the place of step x in s, 0 if it is not there
Place(s, x) == IF \E k \in 1..Len(s) : s[k] = x
               THEN CHOOSE k \in 1..Len(s) : s[k] = x
               ELSE 0

\* Logger.log: pylog_level and the console write return for every Level; the
\* websocket raises when it is not running; the file is written last
DoLog(c, i, item, lib_ok) ==
    LET net == FoxPublish(i, item).net
        steps == UpTo(LogSteps(i),
                      IF net # "accepted" THEN Place(LogSteps(i), "net") ELSE 0)
        filed == Place(steps, "file") # 0
        f == IF filed THEN McapLog(i, item, lib_ok) ELSE FileSame(i)
    IN
    /\ fox_publish(i, item)
    /\ file_effect(i, f)
    /\ call' = [Seen(c, i) EXCEPT
                  !.trace = steps,
                  !.net = net,
                  !.exc = FirstRaised(IF net = "accepted" THEN f.exc ELSE "none", net)]

\* the per-severity shorthands
Shorthands == {"debug", "info", "warning", "error", "fatal"}

\* the name of a call of Logger's method of that name
MethodOp(name) ==
    CASE name = "debug" -> "Logger.debug"
      [] name = "info" -> "Logger.info"
      [] name = "warning" -> "Logger.warning"
      [] name = "error" -> "Logger.error"
      [] name = "fatal" -> "Logger.fatal"

\* the calls that end in Logger.log
LogOps == {"log"} \cup Shorthands \cup {MethodOp(name) : name \in Shorthands}

Do(c, i, item, lib_ok) ==
    IF c.op \in LogOps
    THEN DoLog(c, i, item, lib_ok)
    ELSE DoPublish(c, i, item, lib_ok)

\* Logger objects whose constructor returned: get_logger() has handed them out
Handles == {i \in 1..created : mcap[i] # "failed" /\ thread[i] # "none"}

\* Logger.publish / Logger.log on Logger h
Logger_call(op, h, topic, type, sev) ==
    /\ pc = "idle"
    /\ calls < limits.calls
    /\ h \in Handles
    /\ calls' = calls + 1
    /\ \E lib_ok \in LibOutcomes(h) :
          Do([Call0 EXCEPT !.op = op], h,
             [id |-> calls + 1, topic |-> topic, type |-> type,
              stamp |-> Now, sev |-> sev], lib_ok)
    /\ UNCHANGED <<logger, created, mcap, pc, limits, peer>>
    /\ UNCHANGED <<thread, stop, cur, net_reg, server_channels, sent, wire, closed>>

Logger_publish(h, topic, type) == Logger_call("publish", h, topic, type, NoLevel)

Logger_log(h, level) == Logger_call("log", h, FOXGLOVE_LOG_TOPIC, PyStr, level)

\* the free functions publish / log with the global logger unset:
\* get_logger() runs setup() first
lazy_call(op, topic, type, sev) ==
    /\ pc = "idle"
    /\ calls < limits.calls
    /\ logger = 0
    /\ created < limits.loggers
    /\ calls' = calls + 1
    /\ pc' = "construct"
    /\ call' = [Call0 EXCEPT !.op = op, !.lazy = TRUE,
                  !.item = [id |-> calls + 1, topic |-> topic, type |-> type,
                            stamp |-> Now, sev |-> sev]]
    /\ UNCHANGED <<logger, created, mcap, mcap_reg, writer, records, limits, peer>>
    /\ UNCHANGED netVars

\* the free function publish
publish(topic, type) ==
    \/ lazy_call("publish", topic, type, NoLevel)
    \/ logger # 0 /\ Logger_publish(logger, topic, type)

\* the free function log
log(level) ==
    \/ lazy_call("log", FOXGLOVE_LOG_TOPIC, PyStr, level)
    \/ logger # 0 /\ Logger_log(logger, level)

\* the body of a free shorthand: log(msg, stamp, Level.X), three arguments
free_body(name) ==
    [fn |-> "log", args |-> 3,
     level |-> CASE name = "debug" -> Level_DEBUG
                 [] name = "info" -> Level_INFO
                 [] name = "warning" -> Level_WARNING
                 [] name = "error" -> Level_ERROR
                 [] name = "fatal" -> Level_FATAL]

\* the body of a shorthand method of Logger: self.log(msg, stamp, Level.X),
\* but debug calls self.info(msg, stamp, Level.DEBUG)
Logger_body(name) ==
    IF name = "debug"
    THEN [fn |-> "info", args |-> 3, level |-> Level_DEBUG]
    ELSE [fn |-> "log", args |-> 3,
          level |-> CASE name = "info" -> Level_INFO
                      [] name = "warning" -> Level_WARNING
                      [] name = "error" -> Level_ERROR
                      [] name = "fatal" -> Level_FATAL]

\* the positional parameters after self: log(msg, stamp, level) and
\* info(msg, stamp)
Params(fn) == IF fn = "log" THEN 3 ELSE 2

\* the free functions debug, info, warning, error, fatal
shorthand(name) ==
    \/ lazy_call(name, FOXGLOVE_LOG_TOPIC, PyStr, free_body(name).level)
    \/ logger # 0 /\ Logger_call(name, logger, FOXGLOVE_LOG_TOPIC, PyStr,
                                 free_body(name).level)

\* Logger.debug, .info, .warning, .error, .fatal on Logger h: a call with
\* more arguments than the method called takes raises TypeError before the
\* method runs
Logger_short(h, name) ==
    IF Logger_body(name).args > Params(Logger_body(name).fn)
    THEN /\ pc = "idle"
         /\ calls < limits.calls
         /\ h \in Handles
         /\ calls' = calls + 1
         /\ call' = [Seen([Call0 EXCEPT !.op = MethodOp(name)], h)
                       EXCEPT !.exc = "TypeError"]
         /\ UNCHANGED <<logger, created, mcap, mcap_reg, writer, records,
                        pc, limits, peer>>
         /\ UNCHANGED netVars
    ELSE Logger_call(MethodOp(name), h, FOXGLOVE_LOG_TOPIC, PyStr,
                     Logger_body(name).level)

\* get_logger() returns what the slot holds after its setup(): the call goes
\* on to Logger.publish/log of that object, and raises AttributeError when
\* another thread has emptied the slot in between
use ==
    /\ pc = "use"
    /\ pc' = "idle"
    /\ IF logger = 0
       THEN /\ call' = [call EXCEPT !.exc = "AttributeError", !.inst = 0,
                                     !.item = NoItem]
            /\ UNCHANGED <<mcap_reg, writer, records>>
            /\ UNCHANGED <<input_queue, exception_queue, accepted, failed>>
       ELSE \E lib_ok \in LibOutcomes(logger) : Do(call, logger, call.item, lib_ok)
    /\ UNCHANGED <<logger, created, mcap, calls, limits, peer>>
    /\ UNCHANGED <<thread, stop, cur, net_reg, server_channels, sent, wire, closed>>

\* FoxgloveWebsocketLogger.close, first half: self._stop.set(), then join()
\* blocks the producer
fox_close(c, i) ==
    /\ stop' = [stop EXCEPT ![i] = TRUE]
    /\ pc' = "join"
    /\ call' = [Seen(c, i) EXCEPT !.trace = <<"net">>]
    /\ UNCHANGED <<logger, created, mcap, mcap_reg, writer, records, calls, limits, peer>>
    /\ UNCHANGED <<thread, input_queue, exception_queue, cur, net_reg,
                   server_channels, sent, wire, accepted, failed, closed>>

\* the free function close
close ==
    /\ pc = "idle"
    /\ IF logger = 0
       THEN /\ call' = [Call0 EXCEPT !.op = "close"]
            /\ UNCHANGED <<logger, created, mcap, mcap_reg, writer, records,
                           pc, calls, limits, peer>>
            /\ UNCHANGED netVars
       ELSE fox_close([Call0 EXCEPT !.op = "close"], logger)

\* the free function setup: close() first
setup(path) ==
    /\ pc = "idle"
    /\ created < limits.loggers
    /\ IF logger = 0
       THEN /\ pc' = "construct"
            /\ call' = [Call0 EXCEPT !.op = "setup", !.path = path]
            /\ UNCHANGED <<logger, created, mcap, mcap_reg, writer, records,
                           calls, limits, peer>>
            /\ UNCHANGED netVars
       ELSE fox_close([Call0 EXCEPT !.op = "setup", !.path = path], logger)

\* the process ends normally: the interpreter runs close, registered with
\* atexit.register
atexit_close ==
    /\ pc = "idle"
    /\ IF logger = 0
       THEN /\ pc' = "exited"
            /\ call' = [Call0 EXCEPT !.op = "atexit"]
            /\ UNCHANGED <<logger, created, mcap, mcap_reg, writer, records,
                           calls, limits, peer>>
            /\ UNCHANGED netVars
       ELSE fox_close([Call0 EXCEPT !.op = "atexit"], logger)

\* an exit hook whose exception goes on like that of a call
Raise_through(c, e) == [c EXCEPT !.exc = e]

\* an exception leaves close(): it reaches the caller of an explicit call;
\* the interpreter's atexit runner prints and drops the one of its callback
Raise(c, e) ==
    IF c.op = "atexit" THEN [c EXCEPT !.swallowed = e] ELSE [c EXCEPT !.exc = e]

\* where the producer is when its call is over
Over(c) == IF c.op = "atexit" THEN "exited" ELSE "idle"

\* a close that does not wait for the thread
JoinReturns_nowait(i) == TRUE

\* Thread.join() returns once the thread has ended
JoinReturns(i) == ~IsAlive(i)

\* the global slot after Logger.close() returned inside close()
SlotAfterClose(old) == 0

\* FoxgloveWebsocketLogger.close returns; Logger.close goes on to
\* MCAPLogger.close (Writer.finish may raise); close() clears the slot;
\* setup() goes on to construct
join_return(finish_ok) ==
    /\ pc = "join"
    /\ JoinReturns(call.inst)
    /\ closed' = [closed EXCEPT ![call.inst] = TRUE]
    /\ finish_ok \/ HasFile(call.inst)
    /\ LET c == [call EXCEPT !.trace = IF HasFile(call.inst)
                                       THEN Append(@, "file") ELSE @] IN
       IF finish_ok
       THEN /\ mcap' = [mcap EXCEPT ![call.inst] =
                          IF HasFile(call.inst) THEN "finished" ELSE @]
            /\ logger' = SlotAfterClose(logger)
            /\ pc' = IF call.op = "setup" THEN "construct" ELSE Over(call)
            /\ call' = c
       ELSE /\ call' = Raise([c EXCEPT !.path = NoPath], "FinishError")
            /\ pc' = Over(call)
            /\ UNCHANGED <<logger, mcap>>
    /\ UNCHANGED <<created, mcap_reg, writer, records, calls, limits, peer>>
    /\ UNCHANGED <<thread, stop, input_queue, exception_queue, cur, net_reg,
                   server_channels, sent, wire, accepted, failed>>

\* a signal arrives while Thread.join() blocks: the handler's exception
\* (KeyboardInterrupt) is raised in join, and what follows it in
\* Logger.close and close() is not run
join_interrupt ==
    /\ pc = "join"
    /\ IsAlive(call.inst)
    /\ call' = Raise([call EXCEPT !.path = NoPath], "KeyboardInterrupt")
    /\ pc' = Over(call)
    /\ UNCHANGED <<logger, created, mcap, mcap_reg, writer, records, calls, limits, peer>>
    /\ UNCHANGED netVars

\* the assignment lost (a local __logger instead of the global one)
SlotAfterSetup_lost(new) == logger

\* the global slot after __logger = Logger(...)
SlotAfterSetup(new) == new

\* Logger.__init__: the websocket logger starts its thread, then the file is
\* opened; setup() stores the new Logger unless the constructor raised
construct ==
    /\ pc = "construct"
    /\ created < limits.loggers
    /\ created' = created + 1
    /\ thread' = [thread EXCEPT ![created + 1] = "started"]
    /\ IF call.path = NoPath
       THEN UNCHANGED <<mcap, mcap_reg, writer, records>>
       ELSE MCAPLogger_new(created + 1, call.path)
    /\ IF call.path # NoPath /\ OpenFails(call.path)
       THEN /\ call' = [call EXCEPT !.exc = "OpenError", !.inst = created + 1,
                                     !.built = created + 1, !.path = NoPath]
            /\ pc' = "idle"
            /\ UNCHANGED logger
       ELSE /\ call' = [call EXCEPT !.inst = created + 1,
                                     !.built = created + 1, !.path = NoPath]
            /\ logger' = SlotAfterSetup(created + 1)
            /\ pc' = IF call.op = "setup" THEN "idle" ELSE "use"
    /\ UNCHANGED <<calls, limits, peer>>
    /\ UNCHANGED <<stop, input_queue, exception_queue, cur, net_reg,
                   server_channels, sent, wire, accepted, failed, closed>>

\* --------------------------------------------- the file sink on its own
\* MCAPLogger objects the producer made itself
Sinks == {i \in 1..created : HasFile(i) /\ thread[i] = "none"}

\* MCAPLogger(log_path)
MCAPLogger_init(path) ==
    /\ created < limits.loggers
    /\ path # NoPath
    /\ created' = created + 1
    /\ MCAPLogger_new(created + 1, path)
    /\ call' = [Call0 EXCEPT !.op = "mcap.init", !.inst = created + 1,
                  !.exc = IF OpenFails(path) THEN "OpenError" ELSE "none"]
    /\ UNCHANGED <<logger, pc, calls, limits, peer>>
    /\ UNCHANGED netVars

\* a call of MCAPLogger.publish or MCAPLogger.log on sink h
mcap_call(op, h, item, f) ==
    /\ calls < limits.calls
    /\ h \in Sinks
    /\ calls' = calls + 1
    /\ file_effect(h, f)
    /\ call' = [Call0 EXCEPT !.op = op, !.inst = h, !.item = item,
                  !.exc = f.exc, !.trace = <<"file">>,
                  !.pre_closed = mcap[h] = "finished"]
    /\ UNCHANGED <<logger, created, mcap, pc, limits, peer>>
    /\ UNCHANGED netVars

MCAPLogger_publish(h, topic, type, stamp) ==
    \E lib_ok \in LibOutcomes(h) :
       LET item == [id |-> calls + 1, topic |-> topic, type |-> type,
                    stamp |-> stamp, sev |-> NoLevel] IN
       mcap_call("mcap.publish", h, item, McapPublish(h, item, lib_ok))

MCAPLogger_log(h, stamp, level) ==
    \E lib_ok \in LibOutcomes(h) :
       LET item == [id |-> calls + 1, topic |-> FOXGLOVE_LOG_TOPIC, type |-> PyStr,
                    stamp |-> stamp, sev |-> level] IN
       mcap_call("mcap.log", h, item, McapLog(h, item, lib_ok))

\* MCAPLogger.close: Writer.finish()
MCAPLogger_close(h, finish_ok) ==
    /\ h \in Sinks
    /\ mcap[h] = "open"
    /\ call' = [Call0 EXCEPT !.op = "mcap.close", !.inst = h,
                  !.exc = IF finish_ok THEN "none" ELSE "FinishError"]
    /\ mcap' = [mcap EXCEPT ![h] = IF finish_ok THEN "finished" ELSE @]
    /\ UNCHANGED <<logger, created, mcap_reg, writer, records, pc, calls, limits, peer>>
    /\ UNCHANGED netVars

\* ------------------------------------------------ two producer threads
\* the interpreter switches between two threads that call the free
\* functions: the one that ran keeps its position and its call, the other
\* one goes on from where it was
switch ==
    /\ pc' = peer.pc
    /\ call' = peer.call
    /\ peer' = [pc |-> pc, call |-> call]
    /\ UNCHANGED <<logger, created, mcap, mcap_reg, writer, records, calls, limits>>
    /\ UNCHANGED netVars

\* ------------------------------------------------------------ to_stamp
\* to_stamp(t) called with the argument of the call record
to_stamp_call ==
    /\ call.op = "to_stamp"
    /\ call.ret = NoStamp
    /\ call' = [call EXCEPT !.ret = to_stamp(call.arg)]
    /\ UNCHANGED <<logger, created, mcap, mcap_reg, writer, records, pc,
                   calls, limits, peer>>
    /\ UNCHANGED netVars

\* ------------------------------------------------------- specifications
InitCall(l, c) ==
    /\ logger = 0
    /\ created = 0
    /\ thread = [i \in Ids |-> "none"]
    /\ stop = [i \in Ids |-> FALSE]
    /\ input_queue = [i \in Ids |-> <<>>]
    /\ exception_queue = [i \in Ids |-> <<>>]
    /\ cur = [i \in Ids |-> NoItem]
    /\ net_reg = [i \in Ids |-> EmptyReg]
    /\ server_channels = [i \in Ids |-> 0]
    /\ sent = [i \in Ids |-> <<>>]
    /\ wire = [i \in Ids |-> NoMsg]
    /\ accepted = [i \in Ids |-> <<>>]
    /\ failed = [i \in Ids |-> "no"]
    /\ closed = [i \in Ids |-> FALSE]
    /\ mcap = [i \in Ids |-> "none"]
    /\ mcap_reg = [i \in Ids |-> EmptyReg]
    /\ writer = [i \in Ids |-> [schemas |-> 0, channels |-> 0]]
    /\ records = [i \in Ids |-> <<>>]
    /\ pc = "idle"
    /\ call = c
    /\ calls = 0
    /\ limits = l
    /\ peer = [pc |-> "idle", call |-> Call0]

\* nothing constructed, no call made
InitWith(l) == InitCall(l, Call0)

\* the budgets of a run: MaxLoggers Logger objects with one call fewer than
\* MaxCalls, or MaxCalls calls with one Logger fewer
Budgets ==
    {[loggers |-> MaxLoggers, calls |-> MaxCalls - 1],
     [loggers |-> MaxLoggers - 1, calls |-> MaxCalls]}

Init == \E l \in Budgets : InitWith(l)

\* the producer's steps, its log calls made with the severities of levels
Producer(levels) ==
    \/ \E path \in Paths : setup(path)
    \/ close
    \/ \E topic \in DataTopics, type \in ObjTypes : publish(topic, type)
    \/ \E level \in levels : log(level)
    \/ \E h \in Ids, level \in levels : Logger_log(h, level)
    \/ \E ok \in BOOLEAN : join_return(ok)
    \/ construct
    \/ use

Next == Producer({Level_INFO}) \/ \E i \in Ids : Worker(i)

Spec == Init /\ [][Next]_vars

\* the threads are scheduled and the 0.2 s timeout fires: a worker that can
\* take a step takes one, and a join whose thread has ended returns
InitLive == InitWith([loggers |-> LiveLoggers, calls |-> LiveCalls])

FairSpec ==
    /\ InitLive
    /\ [][Next]_vars
    /\ \A i \in Ids : WF_vars(Worker(i))
    /\ WF_vars(\E ok \in BOOLEAN : join_return(ok))

\* every severity, signals, and the end of the process, after which no
\* thread runs
InitEnv == InitWith([loggers |-> EnvLoggers, calls |-> EnvCalls])

EnvNext ==
    \/ Producer(Levels)
    \/ join_interrupt
    \/ atexit_close
    \/ \E i \in Ids : pc # "exited" /\ Worker(i)

EnvSpec == InitEnv /\ [][EnvNext]_vars

\* MCAPLogger objects used directly
InitSink == InitWith([loggers |-> SinkLoggers, calls |-> SinkCalls])

SinkNext ==
    \/ \E path \in Paths : MCAPLogger_init(path)
    \/ \E h \in Ids, topic \in DataTopics, type \in ObjTypes, stamp \in Stamps :
          MCAPLogger_publish(h, topic, type, stamp)
    \/ \E h \in Ids, stamp \in Stamps, level \in Levels :
          MCAPLogger_log(h, stamp, level)
    \/ \E h \in Ids, ok \in BOOLEAN : MCAPLogger_close(h, ok)

SinkSpec == InitSink /\ [][SinkNext]_vars

\* the per-severity shorthands, as free functions and as methods of the
\* Logger objects handed out
InitShort == InitWith([loggers |-> ShortLoggers, calls |-> ShortCalls])

ShortNext ==
    \/ \E path \in Paths : setup(path)
    \/ close
    \/ \E name \in Shorthands : shorthand(name)
    \/ \E h \in Ids, name \in Shorthands : Logger_short(h, name)
    \/ \E ok \in BOOLEAN : join_return(ok)
    \/ construct
    \/ use
    \/ \E i \in Ids : Worker(i)

ShortSpec == InitShort /\ [][ShortNext]_vars

\* two producer threads that call the free functions; every file opens
InitRace == InitWith([loggers |-> RaceLoggers, calls |-> RaceCalls])

RaceNext ==
    \/ \E path \in {NoPath, GoodPath} : setup(path)
    \/ close
    \/ \E topic \in DataTopics, type \in ObjTypes : publish(topic, type)
    \/ log(Level_INFO)
    \/ \E ok \in BOOLEAN : join_return(ok)
    \/ construct
    \/ use
    \/ switch
    \/ \E i \in Ids : Worker(i)

RaceSpec == InitRace /\ [][RaceNext]_vars

\* to_stamp on its own, its argument drawn from StampInputs
InitStamp ==
    \E ns \in StampInputs :
       InitCall([loggers |-> 0, calls |-> 0],
                [Call0 EXCEPT !.op = "to_stamp", !.arg = ns])

StampNext == to_stamp_call

StampSpec == InitStamp /\ [][StampNext]_vars

\* ---------------------------------------------------------------- claims
\* a Logger is live: its worker is started and not joined, or its file is
\* open and not finalized
Live(i) == (thread[i] # "none" /\ ~closed[i]) \/ mcap[i] = "open"

\* C1: at any time at most one Logger is live (worker not joined or file not
\* finalized), whatever free functions the single producer thread called.
C1_AtMostOneLive == Cardinality({i \in Ids : Live(i)}) <= 1

\* C2 as claimed: every setup call ends with the slot holding the Logger
\* this call constructed.
C2_SetupAlwaysEndsSet ==
    (call.op = "setup" /\ pc = "idle") =>
        /\ logger # 0
        /\ logger = call.built

\* C2 as amended: a setup call that returns normally ends with the slot
\* holding the Logger this call constructed; one that raises because the file
\* cannot be opened ends with the slot empty; one that raises because closing
\* the held Logger raised constructs nothing and leaves that Logger in the slot.
C2_SetupOutcome ==
    (call.op = "setup" /\ pc = "idle") =>
        /\ call.exc \in {"none", "OpenError", "FinishError"}
        /\ call.exc = "none" =>
              logger # 0 /\ logger = call.built /\ logger = created
        /\ call.exc = "OpenError" => logger = 0 /\ call.built = created
        /\ call.exc = "FinishError" =>
              logger # 0 /\ logger = call.inst /\ call.built = 0

\* a second setup returned normally: the first Logger is closed, the second
\* one is in the slot
C2_Witness ==
    /\ call.op = "setup" /\ pc = "idle" /\ call.exc = "none"
    /\ logger = 2 /\ closed[1]

\* C3: after the free function close() the slot is empty, also when closing
\* a sink of the held Logger raised.
C3_CloseEndsUnset == (call.op = "close" /\ pc = "idle") => logger = 0

\* C4: a free log/publish call made with the slot empty creates a default
\* Logger (no file) and does not raise, however the new worker is scheduled.
C4_LazyCallDoesNotRaise ==
    (call.lazy /\ pc = "idle") =>
        /\ logger # 0 /\ ~HasFile(logger)
        /\ call.exc = "none"

\* C5: NetworkSink.publish raises only when the worker thread is not alive
\* (then the stored exception if one is pending, else the not-running
\* error); whenever the thread is alive the item is handed over and nothing
\* is raised.
C5_RaisesOnlyWhenNotAlive ==
    (call.net # "none" /\ pc = "idle") =>
        (call.pre_alive <=> call.net = "accepted")

\* C6: once the worker's loop raised on an item, the very next publish raises
\* the stored exception, and every publish after that one raises the
\* not-running error.
C6_NextPublishSurfaces ==
    (call.net # "none" /\ pc = "idle") =>
        /\ call.pre_failed = "item" => call.net = "WorkerAssertion"
        /\ call.pre_failed = "surfaced" => call.net = "NotRunning"

\* a publish/log step of the producer that reached the NetworkSink of Logger i
PublishStepOn(i) == calls' = calls + 1 /\ call'.inst = i /\ call'.net # "none"

\* C7 as claimed: every publish or log after NetworkSink.close() returned
\* raises the not-running error.
C7_AfterCloseNotRunning ==
    (call.net # "none" /\ pc = "idle" /\ call.pre_closed) =>
        call.net = "NotRunning"

\* C7 as amended: after NetworkSink.close() has returned the worker thread is
\* not alive in every later state, and every later publish or log call raises
\* and enqueues nothing; it raises the worker's stored exception if one is
\* still pending, and the not-running error otherwise.
C7_AfterClose ==
    [][\A i \in Ids :
          /\ closed'[i] => thread'[i] = "dead"
          /\ closed[i] =>
                /\ closed'[i]
                /\ input_queue'[i] = input_queue[i]
                /\ PublishStepOn(i) =>
                      call'.net = IF exception_queue[i] # <<>>
                                  THEN Head(exception_queue[i])
                                  ELSE "NotRunning"]_vars

\* a log or publish call was made on a NetworkSink whose close() had returned
C7_Witness == call.net # "none" /\ pc = "idle" /\ call.pre_closed

\* C8: NetworkSink.close() always terminates: with the stop flag set, a worker
\* that is scheduled leaves its loop at the next timeout or after the item in
\* hand, whatever the queue holds, and the join returns; a close() on a worker
\* that had already stopped does not block.
C8_CloseTerminates ==
    /\ (pc = "join") ~> (pc # "join")
    /\ [](pc = "join" /\ ~call.pre_alive => ENABLED (\E ok \in BOOLEAN : join_return(ok)))

\* close() waits for a worker that is in its loop with an item still queued
C8_Witness ==
    /\ pc = "join"
    /\ thread[call.inst] \in {"wait", "proc"}
    /\ input_queue[call.inst] # <<>>

\* C9: every item publish accepted is taken from the queue by the worker:
\* none is left unconsumed when the worker has ended.
C9_NothingLeftUnconsumed ==
    \A i \in Ids : thread[i] = "dead" => input_queue[i] = <<>>

IsPrefix(s, t) == Len(s) <= Len(t) /\ SubSeq(t, 1, Len(s)) = s

\* C10: the items sent to the server are, in order, a prefix of the items
\* the producer's publish/log calls handed over.
C10_SentIsPrefixOfAccepted ==
    \A i \in Ids : IsPrefix(sent[i], accepted[i])

\* two items of one Logger were sent
C10_Witness == \E i \in Ids : Len(sent[i]) >= 2

\* exceptions that MCAPLogger.publish / log raise
FileExceptions == {"McapAssertion", "WriterError"}

\* C11: Logger.publish calls the file sink first, and only when a file was
\* configured, and the websocket second; when the file sink raises, the
\* exception reaches the caller, the websocket is not called for that call and
\* nothing is enqueued.
C11_FileThenNet ==
    /\ [](call.op = "publish" /\ pc = "idle" /\ call.inst # 0 =>
            /\ call.trace = (IF HasFile(call.inst) THEN <<"file">> ELSE <<>>)
                            \o (IF call.exc \in FileExceptions
                                THEN <<>> ELSE <<"net">>)
            /\ call.exc \in FileExceptions => call.net = "none")
    /\ [][(call' # call /\ call'.op = "publish" /\ call'.exc \in FileExceptions)
             => UNCHANGED <<input_queue, accepted>>]_vars

\* the file sink raised in a publish whose websocket was running
C11_Witness ==
    /\ call.op = "publish" /\ pc = "idle"
    /\ call.exc = "McapAssertion"
    /\ LoopIsRunning(call.inst) /\ IsAlive(call.inst)

\* C12: Logger.log makes its steps in the order console, websocket, file (the
\* file only when there is one); the console write is made in every log call,
\* also when the websocket or the file then raises.
C12_ConsoleNetFile ==
    (call.op = "log" /\ pc = "idle" /\ call.inst # 0) =>
        /\ Len(call.trace) \in {2, 3}
        /\ call.trace[1] = "console"
        /\ call.trace[2] = "net"
        /\ Len(call.trace) = 3 <=> (call.net = "accepted" /\ HasFile(call.inst))
        /\ Len(call.trace) = 3 => call.trace[3] = "file"

\* a log call on a Logger with a file whose websocket raised
C12_Witness ==
    /\ call.op = "log" /\ pc = "idle"
    /\ HasFile(call.inst)
    /\ call.exc = "NotRunning"

\* C13: Logger.close attempts to close the websocket logger and the file
\* (when there is one) even if closing the first raises: every close() that
\* is over has made both attempts.
C13_BothSinksClosed ==
    (call.op = "close" /\ pc = "idle" /\ call.inst # 0) =>
        call.trace = <<"net">> \o (IF HasFile(call.inst) THEN <<"file">> ELSE <<>>)

Topics == DataTopics \cup {FOXGLOVE_LOG_TOPIC}

\* the item the worker holds names a registered topic with another model
NetConflict(i) ==
    /\ thread[i] = "proc"
    /\ cur[i].topic \in DataTopics
    /\ cur[i].type \in Models
    /\ net_reg[i][cur[i].topic].name \notin {NoReg.name, cur[i].type}

\* C14: in the registry of each sink a topic keeps the type name and the
\* channel id of its first registration; a publish that names a registered
\* topic with another type fails with the assertion error, leaves the
\* registry as it was, makes no registration call and appends or sends no
\* record.
C14_TypeImmutable ==
    /\ [](call.op = "publish" /\ pc = "idle" /\ call.conflict
             => call.exc = "McapAssertion")
    /\ [][\A i \in Ids :
            /\ \A t \in Topics :
                  /\ mcap_reg[i][t] # NoReg => mcap_reg'[i][t] = mcap_reg[i][t]
                  /\ net_reg[i][t] # NoReg => net_reg'[i][t] = net_reg[i][t]
            /\ (call' # call /\ call'.op = "publish" /\ call'.inst = i
                   /\ call'.conflict)
               => /\ mcap_reg'[i] = mcap_reg[i]
                  /\ writer'[i] = writer[i]
                  /\ records'[i] = records[i]
            /\ (NetConflict(i) /\ thread'[i] # thread[i])
               => /\ thread'[i] = "exiting"
                  /\ exception_queue'[i] = Append(exception_queue[i], "WorkerAssertion")
                  /\ net_reg'[i] = net_reg[i]
                  /\ server_channels'[i] = server_channels[i]
                  /\ sent'[i] = sent[i]
                  /\ wire'[i] = wire[i]]_vars

\* a publish named a topic of the file sink with a second model
C14_Witness == call.op = "publish" /\ pc = "idle" /\ call.conflict

\* the topics a registry holds
Registered(reg) == {t \in Topics : reg[t] # NoReg}

\* C15 as claimed: after a publish the number of channel registrations of the
\* file sink is the number of distinct data topics publish was called with
\* (here the one data topic) plus one for the log topic.
C15_ChannelsCountTopicsSeen ==
    (call.op = "publish" /\ pc = "idle" /\ call.inst # 0 /\ HasFile(call.inst))
        => writer[call.inst].channels = Cardinality(DataTopics) + 1

\* C15 as amended: the first resolution of a topic that passes the asserts
\* makes one schema and one channel registration call, every later resolution
\* of the topic returns the same Registration and makes no call: in each sink
\* the number of registration calls is the number of topics its registry
\* holds (the log topic and the data topics resolved with success), and each
\* topic has a channel id of its own.
C15_RegistrationIdempotent ==
    /\ [](\A i \in Ids :
            /\ writer[i].channels = Cardinality(Registered(mcap_reg[i]))
            /\ writer[i].schemas = writer[i].channels
            /\ server_channels[i] = Cardinality(Registered(net_reg[i]))
            /\ \A t, u \in Topics :
                  /\ (t # u /\ t \in Registered(mcap_reg[i])
                            /\ u \in Registered(mcap_reg[i]))
                        => mcap_reg[i][t].channel_id # mcap_reg[i][u].channel_id
                  /\ (t # u /\ t \in Registered(net_reg[i])
                            /\ u \in Registered(net_reg[i]))
                        => net_reg[i][t].channel_id # net_reg[i][u].channel_id)
    /\ [][\A i \in Ids : \A t \in Topics :
            /\ t \in Registered(mcap_reg[i]) => mcap_reg'[i][t] = mcap_reg[i][t]
            /\ t \in Registered(net_reg[i]) => net_reg'[i][t] = net_reg[i][t]]_vars

\* two messages of one data topic are in a file, on the one channel of the topic
C15_Witness ==
    \E i \in Ids :
       /\ Len(records[i]) = 2
       /\ records[i][1].channel_id = records[i][2].channel_id
       /\ records[i][1].channel_id = mcap_reg[i]["/pose"].channel_id
       /\ writer[i].channels = 2

\* a call of MCAPLogger.publish / log that returned
FiledBy(c, i) ==
    /\ c.op \in {"mcap.publish", "mcap.log"}
    /\ c.inst = i
    /\ c.exc = "none"

\* C16: the file sink only appends, in the order of the calls: every publish
\* or log call that returns adds one record at the end, with the channel of
\* its topic, its timestamp and its payload, and nothing else changes the
\* records.
C16_AppendOnlyInOrder ==
    [][\A i \in Ids :
          IF calls' = calls + 1 /\ FiledBy(call', i)
          THEN /\ Len(records'[i]) = Len(records[i]) + 1
               /\ SubSeq(records'[i], 1, Len(records[i])) = records[i]
               /\ records'[i][Len(records'[i])].id = call'.item.id
               /\ records'[i][Len(records'[i])].channel_id =
                     mcap_reg'[i][call'.item.topic].channel_id
               /\ records'[i][Len(records'[i])].log_time = to_ns(call'.item.stamp)
          ELSE records'[i] = records[i]]_vars

\* C17: a publish or log call made on a file sink after its close() fails.
C17_ClosedSinkRaises ==
    (call.op \in {"mcap.publish", "mcap.log"} /\ call.pre_closed)
        => call.exc # "none"

\* C18: the log record the worker sends carries the severity given to the
\* log call that queued it.
C18_SentLevelIsSeverity ==
    [][\A i \in Ids :
          (thread[i] = "proc" /\ cur[i].topic = FOXGLOVE_LOG_TOPIC
              /\ sent'[i] # sent[i])
          => wire'[i].level = cur[i].sev]_vars

\* C19: a publish whose payload cannot be serialized raises to its caller,
\* on a Logger with a file and on one without.
C19_BadPayloadRaises ==
    (call.op = "publish" /\ pc = "idle" /\ call.inst # 0 /\ call.bad)
        => call.exc # "none"

ShortOps == LogOps \ {"log"}
NameOf(op) == CHOOSE name \in Shorthands : op \in {name, MethodOp(name)}

\* the severity a shorthand names
SeverityNamed(name) ==
    CASE name = "debug" -> Level_DEBUG
      [] name = "info" -> Level_INFO
      [] name = "warning" -> Level_WARNING
      [] name = "error" -> Level_ERROR
      [] name = "fatal" -> Level_FATAL

\* the step in which a shorthand call reached Logger i and was over
ShortStepOn(i) ==
    /\ call'.op \in ShortOps
    /\ call'.inst = i
    /\ pc' = "idle"
    /\ calls' = calls + 1 \/ pc = "use"

\* C21: a shorthand call, free or on a Logger, does what log does with the
\* severity the shorthand names: with the websocket running it queues one
\* log item of that severity and, when there is an open file, appends one
\* record of that severity; with the websocket not running it raises what
\* log raises and changes neither sink; it raises in no other case.
C21_ShorthandIsLog ==
    [][\A i \in Ids : ShortStepOn(i) =>
          LET S == SeverityNamed(NameOf(call'.op))
              q == input_queue'[i]
              r == records'[i]
          IN
          IF LoopIsRunning(i) /\ IsAlive(i)
          THEN /\ call'.exc # "none" => mcap[i] = "finished"
               /\ Len(q) = Len(input_queue[i]) + 1
               /\ q[Len(q)].topic = FOXGLOVE_LOG_TOPIC
               /\ q[Len(q)].sev = S
               /\ mcap[i] = "open" =>
                     /\ Len(r) = Len(records[i]) + 1
                     /\ r[Len(r)].level = S
          ELSE /\ call'.exc = FoxPublish(i, NoItem).net
               /\ q = input_queue[i]
               /\ r = records[i]]_vars

\* the Registration of the log topic: the first one a sink makes
LogRegistration == [name |-> FOXGLOVE_LOG_MSG_TYPE, channel_id |-> 1]

\* C22: each sink registers the log topic once, before it can write or send
\* a record: a file sink has it from its construction, a worker has it when
\* it is in its receive loop; the registration is never made again, and no
\* log call, in the producer or in the worker, makes a registration call or
\* changes a registry.
C22_LogTopicPreRegistered ==
    /\ [](\A i \in Ids :
            /\ (HasFile(i) \/ records[i] # <<>>)
                  => mcap_reg[i][FOXGLOVE_LOG_TOPIC] = LogRegistration
            /\ (ServerUp(i) \/ sent[i] # <<>>)
                  => net_reg[i][FOXGLOVE_LOG_TOPIC] = LogRegistration)
    /\ [][\A i \in Ids :
            /\ mcap_reg[i][FOXGLOVE_LOG_TOPIC] # NoReg
                  => mcap_reg'[i][FOXGLOVE_LOG_TOPIC] = mcap_reg[i][FOXGLOVE_LOG_TOPIC]
            /\ net_reg[i][FOXGLOVE_LOG_TOPIC] # NoReg
                  => net_reg'[i][FOXGLOVE_LOG_TOPIC] = net_reg[i][FOXGLOVE_LOG_TOPIC]
            /\ (call' # call /\ call'.op \in LogOps /\ call'.inst = i)
                  => /\ writer'[i] = writer[i]
                     /\ mcap_reg'[i] = mcap_reg[i]
            /\ (thread[i] = "proc" /\ cur[i].topic = FOXGLOVE_LOG_TOPIC)
                  => /\ server_channels'[i] = server_channels[i]
                     /\ net_reg'[i] = net_reg[i]]_vars

\* a log call has left a record in the file and its item was sent, each sink
\* having made one registration
C22_Witness ==
    \E i \in Ids :
       /\ Len(records[i]) = 1 /\ records[i][1].level # NoLevel
       /\ Len(sent[i]) = 1 /\ wire[i].level # NoLevel
       /\ writer[i].channels = 1
       /\ server_channels[i] = 1

\* C23: for a nanosecond count ns >= 0, to_stamp(ns) is a pair (sec, nsec)
\* with 0 <= nsec < 10^9 and sec * 10^9 + nsec = ns.
C23_StampSplitsNanoseconds ==
    (call.op = "to_stamp" /\ call.ret # NoStamp) =>
        /\ call.arg >= 0
        /\ call.ret.sec >= 0
        /\ call.ret.nsec >= 0
        /\ call.ret.nsec < NANO
        /\ call.ret.sec * NANO + call.ret.nsec = call.arg

\* to_stamp returned for a count of one nanosecond less than two seconds
C23_Witness ==
    /\ call.op = "to_stamp"
    /\ call.arg = 2 * NANO - 1
    /\ call.ret = [sec |-> 1, nsec |-> NANO - 1]

\* the instant the timestamp field of a log record denotes, in nanoseconds
Instant(m) == m.timestamp.sec * NANO + m.timestamp.nsec

\* C24: in every log record written to a file or sent by a worker, the
\* timestamp (sec, nsec) of the body denotes the log time of the record:
\* sec * 10^9 + nsec is to_ns of the call's timestamp.
C24_BodyStampIsLogTime ==
    \A i \in Ids :
       /\ \A k \in 1..Len(records[i]) :
             records[i][k].level # NoLevel
                => Instant(records[i][k]) = records[i][k].log_time
       /\ wire[i].level # NoLevel => Instant(wire[i]) = wire[i].log_time

\* C25: with two producer threads calling the free functions, at most one
\* Logger is live: every Logger constructed is the one in the slot or has
\* been closed, and no two workers are alive at the same time.
C25_OneLiveAmongThreads ==
    /\ \A i \in 1..created : i = logger \/ closed[i]
    /\ Cardinality({i \in Ids : IsAlive(i)}) <= 1

\* the calls whose records a file holds, in order
RecordIds(i) == [k \in 1..Len(records[i]) |-> records[i][k].id]

\* C26: a Logger.publish or Logger.log call that raised has left no record
\* in the file and no item with the websocket; so, with one producer thread,
\* the records of a Logger's file are the items its websocket accepted, in
\* the same order.
C26_RaisingCallLeavesNothing ==
    /\ (call.op \in {"publish", "log"} /\ pc = "idle" /\ call.inst # 0
           /\ call.exc # "none")
          => /\ \A k \in 1..Len(records[call.inst]) :
                   records[call.inst][k].id # calls
             /\ \A k \in 1..Len(accepted[call.inst]) :
                   accepted[call.inst][k] # calls
    /\ \A i \in Ids : HasFile(i) => RecordIds(i) = accepted[i]

====
